---- MODULE Spec2Model ----
(***************************************************************************)
(* Model of the CNC laser time-study interpreter, src/backend/main.py.     *)
(*                                                                         *)
(* Number representation (the source uses IEEE doubles):                   *)
(*   lengths        integers, tenths of a millimetre                       *)
(*   unit_factor    10 (1.0) or 254 (25.4): tenths of mm per program unit   *)
(*   feeds          tenths of a millimetre per minute                      *)
(*   accelerations  tenths of g                                            *)
(*   times          integers, units of 10 microseconds (1e-5 s)           *)
(*   angles         integers, units of pi/4 (arcs whose radius vectors are *)
(*                  axis-aligned or diagonal, where atan2 is exact)         *)
(* Text is a sequence of one-character strings.                            *)
(***************************************************************************)
EXTENDS Integers, Sequences, FiniteSets, TLC

\* ------------------------------------------------------------------ bounds
MaxLines == 3
\* longest raw line given to the line normalisation called alone
MaxText == 5
\* longest code given to normalize_mcode called alone
MaxCode == 4
\* longest segment list given to normalize_toolpath called alone
MaxSegs == 2

\* ------------------------------------------------------------- text helpers
LowerChars == <<"a","b","c","d","e","f","g","h","i","j","k","l","m",
                "n","o","p","q","r","s","t","u","v","w","x","y","z">>
UpperChars == <<"A","B","C","D","E","F","G","H","I","J","K","L","M",
                "N","O","P","Q","R","S","T","U","V","W","X","Y","Z">>
DigitChars == <<"0","1","2","3","4","5","6","7","8","9">>

InSeq(c, s) == \E i \in 1..Len(s) : s[i] = c
IndexIn(c, s) == CHOOSE i \in 1..Len(s) : s[i] = c

IsLetter(c) == InSeq(c, LowerChars) \/ InSeq(c, UpperChars)
IsDigit(c) == InSeq(c, DigitChars)
DigitVal(c) == IndexIn(c, DigitChars) - 1
\* the class [+\-0-9.] of TOKEN_RE
IsNumChar(c) == IsDigit(c) \/ c \in {"+", "-", "."}
IsSpace(c) == c \in {" ", "\t"}

UpperChar(c) == IF InSeq(c, LowerChars) THEN UpperChars[IndexIn(c, LowerChars)] ELSE c
Upper(s) == [i \in 1..Len(s) |-> UpperChar(s[i])]

RECURSIVE LStrip(_)
LStrip(s) == IF s # <<>> /\ IsSpace(Head(s)) THEN LStrip(Tail(s)) ELSE s
RECURSIVE RStrip(_)
RStrip(s) == IF s # <<>> /\ IsSpace(s[Len(s)]) THEN RStrip(SubSeq(s, 1, Len(s) - 1)) ELSE s
Strip(s) == RStrip(LStrip(s))

\* str.find(c, from): first index >= from holding c, 0 when there is none
Find(s, c, from) ==
  IF \E i \in from..Len(s) : s[i] = c
  THEN CHOOSE i \in from..Len(s) : s[i] = c /\ \A j \in from..(i - 1) : s[j] # c
  ELSE 0

strip_semicolon_comments(line) ==
  IF InSeq(";", line) THEN SubSeq(line, 1, Find(line, ";", 1) - 1) ELSE line

\* the parenthetical strip keeping a line whose '(' is never closed
RECURSIVE strip_parenthetical_comments_keep(_)
strip_parenthetical_comments_keep(line) ==
  LET s == Find(line, "(", 1)
      e == Find(line, ")", s + 1)
  IN IF s = 0 THEN line
     ELSE IF e = 0 THEN SubSeq(line, 1, s - 1) \o SubSeq(line, s + 1, Len(line))
     ELSE strip_parenthetical_comments_keep(SubSeq(line, 1, s - 1)
                                            \o SubSeq(line, e + 1, Len(line)))

\* lines 42-50
RECURSIVE strip_parenthetical_comments(_)
strip_parenthetical_comments(line) ==
  LET s == Find(line, "(", 1)
      e == Find(line, ")", s + 1)
  IN IF s = 0 THEN line
     ELSE IF e = 0 THEN SubSeq(line, 1, s - 1)
     ELSE strip_parenthetical_comments(SubSeq(line, 1, s - 1) \o SubSeq(line, e + 1, Len(line)))

\* length of the maximal run of [+\-0-9.] starting at index i
RECURSIVE NumRun(_, _)
NumRun(s, i) == IF i <= Len(s) /\ IsNumChar(s[i]) THEN 1 + NumRun(s, i + 1) ELSE 0

\* TOKEN_RE.findall: leftmost non-overlapping matches of [A-Za-z][+\-0-9.]+
RECURSIVE FindAll(_, _)
FindAll(s, i) ==
  IF i > Len(s) THEN <<>>
  ELSE IF IsLetter(s[i]) /\ NumRun(s, i + 1) > 0
       THEN <<SubSeq(s, i, i + NumRun(s, i + 1))>> \o FindAll(s, i + 1 + NumRun(s, i + 1))
       ELSE FindAll(s, i + 1)

\* the line normalisation with the parenthetical strip ahead of the
\* semicolon strip
NormalLineParensFirst(raw) ==
  LET l1 == Strip(raw)
  IN IF l1 = <<>> THEN <<>>
     ELSE Strip(strip_semicolon_comments(strip_parenthetical_comments(l1)))

\* lines 155-162: the line without its comments, <<>> when it is skipped
\* before the tokenizer
NormalLine(raw) ==
  LET l1 == Strip(raw)
  IN IF l1 = <<>> THEN <<>>
     ELSE Strip(strip_parenthetical_comments(strip_semicolon_comments(l1)))

\* lines 155-166: the tokens of a raw line, <<>> when the line is skipped
LineParts(raw) ==
  IF NormalLine(raw) = <<>> THEN <<>> ELSE FindAll(Upper(NormalLine(raw)), 1)

\* normalize_mcode removing one leading zero only
normalize_mcode_one_zero(code0) ==
  LET code == Upper(Strip(code0))
      rest == Tail(code)
      num == IF rest # <<>> /\ Head(rest) = "0" THEN Tail(rest) ELSE rest
  IN IF code = <<>> THEN code
     ELSE IF Head(code) = "M" THEN <<"M">> \o (IF num # <<>> THEN num ELSE <<"0">>)
     ELSE code

\* lines 52-59
normalize_mcode(code0) ==
  LET code == Upper(Strip(code0))
      RECURSIVE LStripZero(_)
      LStripZero(t) == IF t # <<>> /\ Head(t) = "0" THEN LStripZero(Tail(t)) ELSE t
      num == LStripZero(Tail(code))
  IN IF code = <<>> THEN code
     ELSE IF Head(code) = "M" THEN <<"M">> \o (IF num # <<>> THEN num ELSE <<"0">>)
     ELSE code

\* ----------------------------------------------------------- float parsing
\* float(t[1:]) on a string over [+\-0-9.]: an optional sign, then digits
\* with at most one '.', at least one digit in all.
RECURSIVE AllDigits(_)
AllDigits(s) == s = <<>> \/ (IsDigit(Head(s)) /\ AllDigits(Tail(s)))
Unsigned(s) == IF s # <<>> /\ Head(s) \in {"+", "-"} THEN Tail(s) ELSE s
IsFloat(s) ==
  LET u == Unsigned(s)
      d == Find(u, ".", 1)
      ip == IF d = 0 THEN u ELSE SubSeq(u, 1, d - 1)
      fp == IF d = 0 THEN <<>> ELSE SubSeq(u, d + 1, Len(u))
  IN AllDigits(ip) /\ AllDigits(fp) /\ Len(ip) + Len(fp) > 0
RECURSIVE DigitsVal(_)
DigitsVal(s) == IF s = <<>> THEN 0 ELSE 10 * DigitsVal(SubSeq(s, 1, Len(s) - 1)) + DigitVal(s[Len(s)])
\* value of a well-formed operand whose fractional digits are all zero
\* (the operands drawn below have no other fractional part)
FloatVal(s) ==
  LET u == Unsigned(s)
      d == Find(u, ".", 1)
      ip == IF d = 0 THEN u ELSE SubSeq(u, 1, d - 1)
      v == DigitsVal(ip)
  IN IF s # <<>> /\ Head(s) = "-" THEN 0 - v ELSE v

\* -------------------------------------------------------------- arithmetic
Abs(n) == IF n < 0 THEN 0 - n ELSE n
Max(a, b) == IF a > b THEN a ELSE b

\* floor of the square root
RECURSIVE SqrtBetween(_, _, _)
SqrtBetween(n, lo, hi) ==
  IF lo >= hi THEN lo
  ELSE LET mid == (lo + hi + 1) \div 2
       IN IF mid * mid <= n THEN SqrtBetween(n, mid, hi) ELSE SqrtBetween(n, lo, mid - 1)
ISqrt(n) == SqrtBetween(n, 0, 46340)

\* math.hypot of two lengths in tenths of mm; the result in hundredths of mm
Hypot(dx, dy) ==
  LET s2 == dx * dx + dy * dy
  IN IF s2 <= 20000000 THEN ISqrt(s2 * 100) ELSE 10 * ISqrt(s2)

\* floor(n * 100000 / d) for 0 <= n and 0 < d < 2000000, by long division
TimeDiv(n, d) ==
  LET r1 == (n % d) * 100
      r2 == (r1 % d) * 1000
  IN (n \div d) * 100000 + (r1 \div d) * 1000 + (r2 \div d)

\* floor(n * m / d) for 0 <= n, 0 < m and 0 < d with d * m < 2^31
MulDiv(n, m, d) == (n \div d) * m + ((n % d) * m) \div d

\* distance in hundredths of mm, feed in tenths of mm per minute,
\* acceleration in tenths of g; the result in units of 1e-5 s.
\* vmax = feed_mm_min / 60 and a = accel_g * 9.81 * 1000 are kept as the
\* fractions they are, and every quotient is rounded down.
move_time_trap(distance_mm, feed_mm_min, accel_g) ==
  IF distance_mm <= 0 \/ feed_mm_min <= 0 \/ accel_g <= 0 THEN 0
  ELSE LET dist == distance_mm * 10                  \* micrometres
           a == accel_g * 981                        \* mm per second^2
           f == feed_mm_min \div 10                  \* mm per minute
           \* (vmax * vmax) / (2.0 * a), nanometres
           d_acc == MulDiv(f * f, 2500, 18 * a)
       IN IF (2 * d_acc) \div 1000 < dist
          THEN LET t_acc == (feed_mm_min * 500) \div (3 * a)             \* vmax / a
                   \* d_cruise / vmax = distance / vmax - 2 * d_acc / vmax
                   t_cruise == TimeDiv(dist * 3, feed_mm_min * 5)
                               - (d_acc * 120) \div feed_mm_min
               IN 2 * t_acc + t_cruise
          ELSE \* v_peak = sqrt(distance * a), 2 * v_peak / a
               IF dist <= 50000 THEN ISqrt(MulDiv(dist * 4000, 10000, a))
               ELSE IF dist <= 500000 THEN 100 * ISqrt((dist * 4000) \div a)
               ELSE 1000 * ISqrt((dist * 40) \div a)

\* a radius vector whose angle is an exact multiple of pi/4
Principal(dx, dy) == dx = 0 \/ dy = 0 \/ Abs(dx) = Abs(dy)

\* math.atan2(dy, dx) of a Principal vector, in units of pi/4: -3..4
Atan2(dy, dx) ==
  IF dy = 0 THEN (IF dx >= 0 THEN 0 ELSE 4)
  ELSE IF dx = 0 THEN (IF dy > 0 THEN 2 ELSE 0 - 2)
  ELSE IF dy > 0 THEN (IF dx > 0 THEN 1 ELSE 3)
  ELSE (IF dx > 0 THEN 0 - 1 ELSE 0 - 3)

\* 2*pi in units of pi/4
TwoPi == 8

\* ------------------------------------------------------------------ points
\* A point is [x, y, r2, ang]: the Cartesian point (x, y) when r2 = 0, else
\* the point at distance sqrt(r2) from (x, y) in direction ang*pi/4, which
\* has no exact Cartesian coordinates in tenths of mm.
Pt(px, py) == [x |-> px, y |-> py, r2 |-> 0, ang |-> 0]

CosSign(a) == IF a \in {0, 1, 7} THEN 1 ELSE IF a \in {3, 4, 5} THEN 0 - 1 ELSE 0
SinSign(a) == IF a \in {1, 2, 3} THEN 1 ELSE IF a \in {5, 6, 7} THEN 0 - 1 ELSE 0

\* (cx + r*cos(ang), cy + r*sin(ang)) with r*r = r2 and ang in units of pi/4
PolarPoint(pcx, pcy, r2, ang) ==
  LET a == ((ang % 8) + 8) % 8
      r == ISqrt(r2)
      m == ISqrt(r2 \div 2)
  IN IF a % 2 = 0 /\ r * r = r2 THEN Pt(pcx + r * CosSign(a), pcy + r * SinSign(a))
     ELSE IF a % 2 = 1 /\ 2 * m * m = r2 THEN Pt(pcx + m * CosSign(a), pcy + m * SinSign(a))
     ELSE [x |-> pcx, y |-> pcy, r2 |-> r2, ang |-> a]

\* add_segment with the two end points exchanged
add_segment_swapped(segments, kind, p0, p1) ==
  Append(segments, [type |-> kind, points |-> <<p1, p0>>, n |-> 1, arc |-> <<>>])

\* one appended segment; n = 1 and arc = <<>> for a straight segment
add_segment(segments, kind, p0, p1) ==
  Append(segments, [type |-> kind, points |-> <<p0, p1>>, n |-> 1, arc |-> <<>>])

\* ------------------------------------------------------------ normalisation
MinOf(S) == CHOOSE m \in S : \A n \in S : m <= n
MaxOf(S) == CHOOSE m \in S : \A n \in S : m >= n

\* d * box / span in thousandths, rounded down: d and span in tenths of mm
Scaled(d, box, span) ==
  LET n == d * box
  IN (n \div span) * 1000 + ((n % span) * 1000) \div span

\* normalize_toolpath scaling by the shorter side of the box
normalize_toolpath_shorter(tp, box) ==
  IF tp = <<>> THEN tp
  ELSE LET xs == {tp[i].points[j].x : i \in 1..Len(tp), j \in 1..2}
           ys == {tp[i].points[j].y : i \in 1..Len(tp), j \in 1..2}
           minx == MinOf(xs)
           maxx == MaxOf(xs)
           miny == MinOf(ys)
           maxy == MaxOf(ys)
           dx == IF maxx > minx THEN maxx - minx ELSE 10
           dy == IF maxy > miny THEN maxy - miny ELSE 10
           span == IF dx < dy THEN dx ELSE dy
           pt(p) == [x |-> Scaled(p.x - minx, box, span), y |-> Scaled(p.y - miny, box, span)]
       IN [i \in 1..Len(tp) |->
            [type |-> tp[i].type, points |-> <<pt(tp[i].points[1]), pt(tp[i].points[2])>>]]

\* lines 79-97, for a list of straight segments with Cartesian end points:
\* the points of the result are [x, y] in thousandths of a display unit
normalize_toolpath(tp, box) ==
  IF tp = <<>> THEN tp
  ELSE LET xs == {tp[i].points[j].x : i \in 1..Len(tp), j \in 1..2}
           ys == {tp[i].points[j].y : i \in 1..Len(tp), j \in 1..2}
           minx == MinOf(xs)
           maxx == MaxOf(xs)
           miny == MinOf(ys)
           maxy == MaxOf(ys)
           dx == IF maxx > minx THEN maxx - minx ELSE 10      \* 1.0
           dy == IF maxy > miny THEN maxy - miny ELSE 10
           span == Max(dx, dy)
           pt(p) == [x |-> Scaled(p.x - minx, box, span), y |-> Scaled(p.y - miny, box, span)]
       IN [i \in 1..Len(tp) |->
            [type |-> tp[i].type, points |-> <<pt(tp[i].points[1]), pt(tp[i].points[2])>>]]

\* ------------------------------------------------------------------ tokens
G0 == <<"G", "0">>
G00 == <<"G", "0", "0">>
G1 == <<"G", "1">>
G01 == <<"G", "0", "1">>
G2 == <<"G", "2">>
G02 == <<"G", "0", "2">>
G3 == <<"G", "3">>
G03 == <<"G", "0", "3">>
G4 == <<"G", "4">>
G04 == <<"G", "0", "4">>
G20 == <<"G", "2", "0">>
G21 == <<"G", "2", "1">>

\* ------------------------------------------------------------ ParameterSet
\* the Form(...) defaults of analyze
DefaultParams ==
  [rapid_accel_g |-> 10, cut_accel_g |-> 5,
   pierce_time |-> 100000, lifter_time |-> 50000,
   default_rapid_ipm |-> 500, default_cut_ipm |-> 100,
   beam_on_code |-> <<"M", "0", "7">>, beam_off_code |-> <<"M", "0", "8">>,
   inch_mode_code |-> <<"G", "7", "0">>, metric_mode_code |-> <<"G", "7", "1">>,
   abs_mode_code |-> <<"G", "9", "0">>, rel_mode_code |-> <<"G", "9", "1">>]

\* a parameter set whose tokens collide with later categories
CollidingParams ==
  [rapid_accel_g |-> 20, cut_accel_g |-> 10,
   pierce_time |-> 200000, lifter_time |-> 25000,
   default_rapid_ipm |-> 400, default_cut_ipm |-> 50,
   beam_on_code |-> <<"M", "0", "8">>, beam_off_code |-> <<" ", "m", "8">>,
   inch_mode_code |-> <<"g", "2", "1">>, metric_mode_code |-> <<"G", "0">>,
   abs_mode_code |-> <<"G", "4">>, rel_mode_code |-> <<"G", "1">>]

ParamSets == {DefaultParams, CollidingParams}

\* ------------------------------------------------------- program lines
\* the raw lines a program is drawn from, by the category they are meant
\* to exercise under the default parameter set
SkipLines ==
  {<<" ">>,
   <<"(", "c">>,
   <<";", "G", "1">>,
   <<"%">>}

ModeLines ==
  {<<"G", "2", "0">>,
   <<"g", "2", "1", " ", "(", "m", ")">>,
   <<"G", "7", "0">>,
   <<"G", "7", "1", " ", "F", "5", "0", "0">>,
   <<"G", "9", "0">>,
   <<"G", "9", "1", " ", "X", "1", ".", "2", ".", "3">>}

BeamLines ==
  {<<"M", "0", "7">>,
   <<"m", "7">>,
   <<"M", "0", "8", " ", "F", "5", "0", "0">>}

DwellLines ==
  {<<"G", "4", " ", "P", "5", "0", "0">>,
   <<"G", "0", "4", " ", "P", "5", "0">>,
   <<"G", "4", " ", "P", "5", "1">>,
   <<"G", "4", " ", "P", "1", "0">>,
   <<"G", "4", " ", "S", "2", " ", "F", "5", "0", "0">>,
   <<"G", "4", " ", "P", "-", "5">>,
   <<"G", "4", " ", "P", "-">>}

RapidLines ==
  {<<"G", "0", " ", "X", "1">>,
   <<"G", "0", "0", " ", "X", "1", " ", "Y", "1", " ", "F", "3", "0", "0">>,
   <<"G", "0", " ", "Y", "1", " ", "Z", "1", ".", "2", ".", "3">>,
   <<"G", "0", " ", "X", "1", ".", "2", ".", "3">>}

LinearLines ==
  {<<"G", "1", " ", "X", "1", " ", "Y", "1">>,
   <<"G", "0", "1", " ", "Y", "-", "1", " ", "F", "2", "0", "0">>}

ArcLines ==
  {<<"G", "2", " ", "X", "2", " ", "Y", "0", " ", "I", "1", " ", "J", "0">>,
   <<"G", "2", " ", "X", "-", "1", " ", "Y", "1", " ", "I", "-", "1", " ", "J", "0">>,
   <<"G", "0", "2", " ", "X", "-", "1", " ", "Y", "1", " ", "I", "-", "1", " ", "J", "0">>,
   <<"G", "3", " ", "X", "1", " ", "Y", "1", " ", "I", "1", " ", "J", "0">>,
   <<"G", "0", "3", " ", "X", "1", " ", "Y", "1", " ", "I", "1", " ", "J", "0">>,
   <<"G", "2">>,
   <<"G", "3", " ", "X", "1", " ", "Y", "1">>,
   <<"G", "2", " ", "I", "1">>,
   <<"G", "3", " ", "X", "3", " ", "I", "1">>}

OtherLines ==
  {<<"N", "1", " ", "G", "1", " ", "X", "1", " ", "F", "5", "0", "0">>,
   <<"T", "1", " ", "X", "1">>,
   <<"G", "5", " ", "F", "-">>}

RawLines ==
  SkipLines \cup ModeLines \cup BeamLines \cup DwellLines
  \cup RapidLines \cup LinearLines \cup ArcLines \cup OtherLines

\* ---------------------------------------------------------- whole programs
\* the worked example of the specification: G21, G90, G0 X10 Y0, M07,
\* G1 X10 Y10 F100, M08, G4 P500
ExampleProgram ==
  <<<<"G", "2", "1">>,
    <<"G", "9", "0">>,
    <<"G", "0", " ", "X", "1", "0", " ", "Y", "0">>,
    <<"M", "0", "7">>,
    <<"G", "1", " ", "X", "1", "0", " ", "Y", "1", "0", " ", "F", "1", "0", "0">>,
    <<"M", "0", "8">>,
    <<"G", "4", " ", "P", "5", "0", "0">>>>

\* a program through the branches the example leaves out: G20,
\* G91 X1.2.3, a blank line, T1 X1, G3 X1 Y1 I1 J0, G0 X1
TourProgram ==
  <<<<"G", "2", "0">>,
    <<"G", "9", "1", " ", "X", "1", ".", "2", ".", "3">>,
    <<" ">>,
    <<"T", "1", " ", "X", "1">>,
    <<"G", "3", " ", "X", "1", " ", "Y", "1", " ", "I", "1", " ", "J", "0">>,
    <<"G", "0", " ", "X", "1">>>>

\* blank lines and comment-only lines: semicolon comments, parenthetical
\* comments, an unmatched opening parenthesis
CommentLines ==
  {<<>>,
   <<" ", "\t">>,
   <<";", " ", "c">>,
   <<";", "G", "1", " ", "X", "1">>,
   <<"(", "c", ")">>,
   <<"(", "G", "1", " ", "X", "1">>,
   <<"(", "a", ")", " ", "(", "b", ")">>,
   <<" ", "(", "c", ")", " ", ";", " ", "G", "1", " ", "(", "d">>}

\* the lines of prog at the indices in keep, from index i on, in their order
RECURSIVE SubProgram(_, _, _)
SubProgram(prog, keep, i) ==
  IF i > Len(prog) THEN <<>>
  ELSE (IF i \in keep THEN <<prog[i]>> ELSE <<>>) \o SubProgram(prog, keep, i + 1)

CommentPrograms ==
  {<<>>} \cup {<<a>> : a \in CommentLines}
  \cup {<<a, b>> : a \in CommentLines, b \in CommentLines}

\* the program texts of the runs that read a whole file
Programs ==
  {SubProgram(ExampleProgram, keep, 1) : keep \in SUBSET (1..Len(ExampleProgram))}
  \cup {TourProgram} \cup CommentPrograms

ProgramLines ==
  {ExampleProgram[i] : i \in 1..Len(ExampleProgram)}
  \cup {TourProgram[i] : i \in 1..Len(TourProgram)}
  \cup CommentLines

AllLines == RawLines \cup ProgramLines

\* the tokens of each raw line
Tokens == [l \in AllLines |-> LineParts(l)]
\* the raw lines that reach the tokenizer at line 164
Tokenized == {l \in AllLines : NormalLine(l) # <<>>}

\* ------------------------------------------------------------------- state
VARIABLES
  params,          \* the ParameterSet of the run
  x, y,            \* current position
  beam_on, feed_mm_min, unit_factor, absolute_mode,
  cut_time_s, travel_time_s, pierce_time_s, dwell_time_s, lifter_time_s,
  pierce_count, beam_cycles,
  toolpath,
  parts,           \* the tokens of the line interpreted last
  branch,          \* the branch of the loop body that line took
  arc,             \* the locals of the arc branch, which outlive the line
  status,          \* "running", "failed" (an exception left analyze), "done"
  lineNo,          \* number of lines consumed
  result,          \* the returned record, <<>> before the return
  lines,           \* the program text: [given, text]; text is the list of
                   \* raw lines when the whole file is given, else the lines
                   \* are drawn one by one as the loop reads them
  other,           \* the frame of a second, suspended call of analyze
  arg, ret         \* argument and return value of a helper called alone

modal == <<x, y, beam_on, feed_mm_min, unit_factor, absolute_mode>>
times == <<cut_time_s, travel_time_s, pierce_time_s, dwell_time_s, lifter_time_s>>
counters == <<pierce_count, beam_cycles>>
outside == <<lines, other, arg, ret>>
vars == <<params, modal, times, counters, toolpath, parts, branch, arc, status, lineNo,
          result, outside>>

\* the rapid feed taken from the default cut feed
default_rapid_from_cut == params.default_cut_ipm * 254

\* lines 130-131
default_rapid_mm_min == params.default_rapid_ipm * 254
default_cut_mm_min == params.default_cut_ipm * 254

\* arc.bound is FALSE while cx and cy have never been assigned
NoArc == [bound |-> FALSE, cx |-> 0, cy |-> 0, nx |-> 0, ny |-> 0,
          i_off |-> 0, j_off |-> 0, r2 |-> 0,
          a1 |-> 0, a2 |-> 0, delta |-> 0, steps |-> 0]

\* a program whose lines are drawn as they are read
AnyLines == [given |-> FALSE, text |-> <<>>]
\* a program read from a whole file
FileLines(text) == [given |-> TRUE, text |-> text]
\* no second call of analyze
NoFrame == [id |-> 0]

\* a helper that has not returned
NoReturn == [returned |-> FALSE, value |-> <<>>]

\* lines 133-141: the locals of analyze before the loop
InitRun ==
  /\ x = 0 /\ y = 0
  /\ beam_on = FALSE
  /\ feed_mm_min = 0
  /\ unit_factor = 10
  /\ absolute_mode = TRUE
  /\ cut_time_s = 0 /\ travel_time_s = 0 /\ pierce_time_s = 0
  /\ dwell_time_s = 0 /\ lifter_time_s = 0
  /\ pierce_count = 0 /\ beam_cycles = 0
  /\ toolpath = <<>>
  /\ parts = <<>>
  /\ branch = "none"
  /\ arc = NoArc
  /\ status = "running"
  /\ lineNo = 0
  /\ result = <<>>

Init ==
  /\ params \in ParamSets
  /\ InitRun
  /\ lines = AnyLines
  /\ other = NoFrame
  /\ arg = <<>> /\ ret = NoReturn

\* -------------------------------------------------------------- dispatching
\* lines 143-149, for the parameter set p
target_on(p) == normalize_mcode(p.beam_on_code)
target_off(p) == normalize_mcode(p.beam_off_code)
inch_mode(p) == Upper(Strip(p.inch_mode_code))
metric_mode(p) == Upper(Strip(p.metric_mode_code))
abs_mode(p) == Upper(Strip(p.abs_mode_code))
rel_mode(p) == Upper(Strip(p.rel_mode_code))

\* the if-chain with the metric test ahead of the inch test
CategoryMetricFirst(p, cmd) ==
  IF cmd \in {metric_mode(p), G21} THEN "metric"
  ELSE IF cmd \in {inch_mode(p), G20} THEN "inch"
  ELSE IF cmd = abs_mode(p) THEN "abs"
  ELSE IF cmd = rel_mode(p) THEN "rel"
  ELSE IF normalize_mcode(cmd) = target_on(p) THEN "beam_on"
  ELSE IF normalize_mcode(cmd) = target_off(p) THEN "beam_off"
  ELSE IF cmd \in {G4, G04} THEN "dwell"
  ELSE IF cmd \in {G0, G00} THEN "rapid"
  ELSE IF cmd \in {G1, G01} THEN "linear"
  ELSE IF cmd \in {G2, G02, G3, G03} THEN "arc"
  ELSE "none"

\* the if-chain of lines 169-258: the branch a command token takes
\* under the parameter set p
Category(p, cmd) ==
  IF cmd \in {inch_mode(p), G20} THEN "inch"
  ELSE IF cmd \in {metric_mode(p), G21} THEN "metric"
  ELSE IF cmd = abs_mode(p) THEN "abs"
  ELSE IF cmd = rel_mode(p) THEN "rel"
  ELSE IF normalize_mcode(cmd) = target_on(p) THEN "beam_on"
  ELSE IF normalize_mcode(cmd) = target_off(p) THEN "beam_off"
  ELSE IF cmd \in {G4, G04} THEN "dwell"
  ELSE IF cmd \in {G0, G00} THEN "rapid"
  ELSE IF cmd \in {G1, G01} THEN "linear"
  ELSE IF cmd \in {G2, G02, G3, G03} THEN "arc"
  ELSE "none"

\* the branch each raw line takes, "skip" when it never reaches line 167
Branch ==
  [p \in ParamSets |->
    [l \in AllLines |->
      IF Tokens[l] = <<>> THEN "skip" ELSE Category(p, Tokens[l][1])]]

\* line 154: the raw lines the loop may read next; at most MaxLines lines
\* are drawn when the program is not a given file
NextLines ==
  IF lines.given
  THEN (IF lineNo < Len(lines.text) THEN {lines.text[lineNo + 1]} ELSE {})
  ELSE (IF lineNo < MaxLines THEN RawLines ELSE {})

\* cmd.startswith(p)
StartsWith(cmd, p) == Len(cmd) >= Len(p) /\ SubSeq(cmd, 1, Len(p)) = p

\* one iteration of "for raw in lines" that reaches line 167 with the
\* tokens ps and takes the branch cat
Takes(l, cat) ==
  /\ status = "running"
  /\ Branch[params][l] = cat
  /\ lineNo' = lineNo + 1
  /\ parts' = Tokens[l]
  /\ branch' = cat
  /\ UNCHANGED <<params, result, outside>>

\* an exception leaves analyze: no result is returned
Raise ==
  /\ status' = "failed"
  /\ UNCHANGED <<modal, times, counters, toolpath, arc>>

\* ------------------------------------------------------------ token loops
\* the dwell loop with the millisecond threshold at "val >= 50"
RECURSIVE DwellLoopInclusive(_, _)
DwellLoopInclusive(ts, dwell_s) ==
  IF ts = <<>> THEN [ok |-> TRUE, dwell_s |-> dwell_s]
  ELSE LET t == Head(ts)
           val == FloatVal(Tail(t))
       IN IF Head(t) = "S"
          THEN IF IsFloat(Tail(t)) THEN DwellLoopInclusive(Tail(ts), val * 100000)
               ELSE [ok |-> FALSE, dwell_s |-> dwell_s]
          ELSE IF Head(t) = "P"
          THEN IF IsFloat(Tail(t))
               THEN DwellLoopInclusive(Tail(ts), IF val >= 50 THEN val * 100 ELSE val * 100000)
               ELSE [ok |-> FALSE, dwell_s |-> dwell_s]
          ELSE DwellLoopInclusive(Tail(ts), dwell_s)

\* lines 203-208
RECURSIVE DwellLoop(_, _)
DwellLoop(ts, dwell_s) ==
  IF ts = <<>> THEN [ok |-> TRUE, dwell_s |-> dwell_s]
  ELSE LET t == Head(ts)
           val == FloatVal(Tail(t))
       IN IF Head(t) = "S"
          THEN IF IsFloat(Tail(t)) THEN DwellLoop(Tail(ts), val * 100000)
               ELSE [ok |-> FALSE, dwell_s |-> dwell_s]
          ELSE IF Head(t) = "P"
          THEN IF IsFloat(Tail(t))
               THEN DwellLoop(Tail(ts), IF val > 50 THEN val * 100 ELSE val * 100000)
               ELSE [ok |-> FALSE, dwell_s |-> dwell_s]
          ELSE DwellLoop(Tail(ts), dwell_s)

\* the feed loop without the unit conversion
RECURSIVE FeedLoopUnscaled(_, _)
FeedLoopUnscaled(ts, feed) ==
  IF ts = <<>> THEN [ok |-> TRUE, feed |-> feed]
  ELSE LET t == Head(ts)
       IN IF Head(t) = "F"
          THEN IF IsFloat(Tail(t)) THEN FeedLoopUnscaled(Tail(ts), FloatVal(Tail(t)))
               ELSE [ok |-> FALSE, feed |-> feed]
          ELSE FeedLoopUnscaled(Tail(ts), feed)

\* lines 213-215
RECURSIVE FeedLoop(_, _)
FeedLoop(ts, feed) ==
  IF ts = <<>> THEN [ok |-> TRUE, feed |-> feed]
  ELSE LET t == Head(ts)
       IN IF Head(t) = "F"
          THEN IF IsFloat(Tail(t)) THEN FeedLoop(Tail(ts), FloatVal(Tail(t)) * unit_factor)
               ELSE [ok |-> FALSE, feed |-> feed]
          ELSE FeedLoop(Tail(ts), feed)

\* the target of one axis without the relative mode
TargetAbsolute(cur, t) ==
  LET val == FloatVal(Tail(t)) * unit_factor
  IN val

\* lines 222-223, 239-240, 264-265: one axis of the target
Target(cur, t) ==
  LET val == FloatVal(Tail(t)) * unit_factor
  IN IF absolute_mode THEN val ELSE cur + val

\* the rapid loop skipping an operand that does not parse
RECURSIVE RapidLoopTolerant(_, _)
RapidLoopTolerant(ts, st) ==
  IF ts = <<>> THEN st
  ELSE LET t == Head(ts)
       IN IF Head(t) \in {"X", "Y"} /\ ~IsFloat(Tail(t)) THEN RapidLoopTolerant(Tail(ts), st)
          ELSE IF Head(t) = "X" THEN RapidLoopTolerant(Tail(ts), [st EXCEPT !.nx = Target(x, t)])
          ELSE IF Head(t) = "Y" THEN RapidLoopTolerant(Tail(ts), [st EXCEPT !.ny = Target(y, t)])
          ELSE RapidLoopTolerant(Tail(ts), st)

\* lines 220-226
RECURSIVE RapidLoop(_, _)
RapidLoop(ts, st) ==
  IF ts = <<>> THEN st
  ELSE LET t == Head(ts)
       IN IF Head(t) \in {"X", "Y"} /\ ~IsFloat(Tail(t)) THEN [st EXCEPT !.ok = FALSE]
          ELSE IF Head(t) = "X" THEN RapidLoop(Tail(ts), [st EXCEPT !.nx = Target(x, t)])
          ELSE IF Head(t) = "Y" THEN RapidLoop(Tail(ts), [st EXCEPT !.ny = Target(y, t)])
          ELSE RapidLoop(Tail(ts), st)

\* lines 237-245
RECURSIVE LinearLoop(_, _)
LinearLoop(ts, st) ==
  IF ts = <<>> THEN st
  ELSE LET t == Head(ts)
       IN IF Head(t) \in {"X", "Y", "F"} /\ ~IsFloat(Tail(t)) THEN [st EXCEPT !.ok = FALSE]
          ELSE IF Head(t) = "X" THEN LinearLoop(Tail(ts), [st EXCEPT !.nx = Target(x, t)])
          ELSE IF Head(t) = "Y" THEN LinearLoop(Tail(ts), [st EXCEPT !.ny = Target(y, t)])
          ELSE IF Head(t) = "F"
          THEN LinearLoop(Tail(ts), [st EXCEPT !.local_feed = FloatVal(Tail(t)) * unit_factor])
          ELSE LinearLoop(Tail(ts), st)

\* lines 276-277, inside the loop body: the centre is assigned once per token
Centre(st) == [st EXCEPT !.bound = TRUE, !.cx = x + st.i_off, !.cy = y + st.j_off]

\* lines 262-277
RECURSIVE ArcLoop(_, _)
ArcLoop(ts, st) ==
  IF ts = <<>> THEN st
  ELSE LET t == Head(ts)
       IN IF Head(t) \in {"X", "Y", "I", "J", "F"} /\ ~IsFloat(Tail(t))
          THEN [st EXCEPT !.ok = FALSE]
          ELSE IF Head(t) = "X"
          THEN ArcLoop(Tail(ts), Centre([st EXCEPT !.nx = Target(x, t)]))
          ELSE IF Head(t) = "Y"
          THEN ArcLoop(Tail(ts), Centre([st EXCEPT !.ny = Target(y, t)]))
          ELSE IF Head(t) = "I"
          THEN ArcLoop(Tail(ts), Centre([st EXCEPT !.i_off = FloatVal(Tail(t)) * unit_factor]))
          ELSE IF Head(t) = "J"
          THEN ArcLoop(Tail(ts), Centre([st EXCEPT !.j_off = FloatVal(Tail(t)) * unit_factor]))
          ELSE IF Head(t) = "F"
          THEN ArcLoop(Tail(ts), Centre([st EXCEPT !.local_feed = FloatVal(Tail(t)) * unit_factor]))
          ELSE ArcLoop(Tail(ts), Centre(st))

\* ----------------------------------------------------------------- actions
\* lines 155-166: a blank, comment-only or token-free line
SkipLine ==
  \E l \in NextLines :
    /\ status = "running"
    /\ Branch[params][l] = "skip"
    /\ lineNo' = lineNo + 1
    /\ parts' = IF l \in Tokenized THEN <<>> ELSE parts
    /\ branch' = "skip"
    /\ UNCHANGED <<params, modal, times, counters, toolpath, arc, status, result, outside>>

\* lines 170-172
InchMode ==
  \E l \in NextLines :
    /\ Takes(l, "inch")
    /\ unit_factor' = 254
    /\ UNCHANGED <<x, y, beam_on, feed_mm_min, absolute_mode>>
    /\ UNCHANGED <<times, counters, toolpath, arc, status>>

\* lines 173-175
MetricMode ==
  \E l \in NextLines :
    /\ Takes(l, "metric")
    /\ unit_factor' = 10
    /\ UNCHANGED <<x, y, beam_on, feed_mm_min, absolute_mode>>
    /\ UNCHANGED <<times, counters, toolpath, arc, status>>

\* lines 176-178
AbsMode ==
  \E l \in NextLines :
    /\ Takes(l, "abs")
    /\ absolute_mode' = TRUE
    /\ UNCHANGED <<x, y, beam_on, feed_mm_min, unit_factor>>
    /\ UNCHANGED <<times, counters, toolpath, arc, status>>

\* lines 179-181
RelMode ==
  \E l \in NextLines :
    /\ Takes(l, "rel")
    /\ absolute_mode' = FALSE
    /\ UNCHANGED <<x, y, beam_on, feed_mm_min, unit_factor>>
    /\ UNCHANGED <<times, counters, toolpath, arc, status>>

\* beam-on without the "if not beam_on" test
BeamOnUnguarded ==
  \E l \in NextLines :
    /\ Takes(l, "beam_on")
    /\ beam_on' = TRUE
    /\ pierce_time_s' = pierce_time_s + params.pierce_time
    /\ lifter_time_s' = lifter_time_s + params.lifter_time
    /\ pierce_count' = pierce_count + 1
    /\ beam_cycles' = beam_cycles + 1
    /\ UNCHANGED <<x, y, feed_mm_min, unit_factor, absolute_mode>>
    /\ UNCHANGED <<cut_time_s, travel_time_s, dwell_time_s, toolpath, arc, status>>

\* lines 185-192
BeamOn ==
  \E l \in NextLines :
    /\ Takes(l, "beam_on")
    /\ IF ~beam_on
       THEN /\ beam_on' = TRUE
            /\ pierce_time_s' = pierce_time_s + params.pierce_time
            /\ lifter_time_s' = lifter_time_s + params.lifter_time
            /\ pierce_count' = pierce_count + 1
            /\ beam_cycles' = beam_cycles + 1
       ELSE UNCHANGED <<beam_on, pierce_time_s, lifter_time_s, pierce_count, beam_cycles>>
    /\ UNCHANGED <<x, y, feed_mm_min, unit_factor, absolute_mode>>
    /\ UNCHANGED <<cut_time_s, travel_time_s, dwell_time_s, toolpath, arc, status>>

\* beam-off without the transition count
BeamOffUncounted ==
  \E l \in NextLines :
    /\ Takes(l, "beam_off")
    /\ IF beam_on
       THEN /\ beam_on' = FALSE
            /\ lifter_time_s' = lifter_time_s + params.lifter_time
            /\ UNCHANGED beam_cycles
       ELSE UNCHANGED <<beam_on, lifter_time_s, beam_cycles>>
    /\ UNCHANGED <<x, y, feed_mm_min, unit_factor, absolute_mode>>
    /\ UNCHANGED <<cut_time_s, travel_time_s, pierce_time_s, dwell_time_s>>
    /\ UNCHANGED <<pierce_count, toolpath, arc, status>>

\* lines 193-198
BeamOff ==
  \E l \in NextLines :
    /\ Takes(l, "beam_off")
    /\ IF beam_on
       THEN /\ beam_on' = FALSE
            /\ lifter_time_s' = lifter_time_s + params.lifter_time
            /\ beam_cycles' = beam_cycles + 1
       ELSE UNCHANGED <<beam_on, lifter_time_s, beam_cycles>>
    /\ UNCHANGED <<x, y, feed_mm_min, unit_factor, absolute_mode>>
    /\ UNCHANGED <<cut_time_s, travel_time_s, pierce_time_s, dwell_time_s>>
    /\ UNCHANGED <<pierce_count, toolpath, arc, status>>

\* lines 201-210
Dwell ==
  \E l \in NextLines :
    /\ Takes(l, "dwell")
    /\ LET d == DwellLoop(Tail(Tokens[l]), 0)
       IN IF ~d.ok THEN Raise
          ELSE /\ dwell_time_s' = dwell_time_s + d.dwell_s
               /\ UNCHANGED <<modal, counters, toolpath, arc, status>>
               /\ UNCHANGED <<cut_time_s, travel_time_s, pierce_time_s, lifter_time_s>>

\* lines 213-215, 218-231
Rapid ==
  \E l \in NextLines :
    /\ Takes(l, "rapid")
    /\ LET fu == FeedLoop(Tail(Tokens[l]), feed_mm_min)
           st == RapidLoop(Tail(Tokens[l]), [ok |-> TRUE, nx |-> x, ny |-> y])
           dist == Hypot(st.nx - x, st.ny - y)
       IN IF ~fu.ok \/ ~st.ok THEN Raise
          ELSE /\ feed_mm_min' = fu.feed
               /\ travel_time_s' = travel_time_s
                     + move_time_trap(dist, default_rapid_mm_min, params.rapid_accel_g)
               /\ toolpath' = add_segment(toolpath, "travel", Pt(x, y), Pt(st.nx, st.ny))
               /\ x' = st.nx
               /\ y' = st.ny
               /\ UNCHANGED <<beam_on, unit_factor, absolute_mode, counters, arc, status>>
               /\ UNCHANGED <<cut_time_s, pierce_time_s, dwell_time_s, lifter_time_s>>

\* the linear move timing the beam-off travel with the active feed
LinearStickyTravel ==
  \E l \in NextLines :
    /\ Takes(l, "linear")
    /\ LET fu == FeedLoop(Tail(Tokens[l]), feed_mm_min)
           st == LinearLoop(Tail(Tokens[l]),
                            [ok |-> TRUE, nx |-> x, ny |-> y, local_feed |-> fu.feed])
           dist == Hypot(st.nx - x, st.ny - y)
           fr == IF st.local_feed > 0 THEN st.local_feed ELSE default_cut_mm_min
       IN IF ~fu.ok \/ ~st.ok THEN Raise
          ELSE /\ feed_mm_min' = fu.feed
               /\ IF beam_on
                  THEN /\ cut_time_s' = cut_time_s
                            + move_time_trap(dist, fr, params.cut_accel_g)
                       /\ toolpath' = add_segment(toolpath, "cut", Pt(x, y), Pt(st.nx, st.ny))
                       /\ UNCHANGED travel_time_s
                  ELSE /\ travel_time_s' = travel_time_s
                            + move_time_trap(dist, fr, params.rapid_accel_g)
                       /\ toolpath' = add_segment(toolpath, "travel", Pt(x, y), Pt(st.nx, st.ny))
                       /\ UNCHANGED cut_time_s
               /\ x' = st.nx
               /\ y' = st.ny
               /\ UNCHANGED <<beam_on, unit_factor, absolute_mode, counters, arc, status>>
               /\ UNCHANGED <<pierce_time_s, dwell_time_s, lifter_time_s>>

\* lines 213-215, 234-255
Linear ==
  \E l \in NextLines :
    /\ Takes(l, "linear")
    /\ LET fu == FeedLoop(Tail(Tokens[l]), feed_mm_min)
           st == LinearLoop(Tail(Tokens[l]),
                            [ok |-> TRUE, nx |-> x, ny |-> y, local_feed |-> fu.feed])
           dist == Hypot(st.nx - x, st.ny - y)
           fr == IF st.local_feed > 0 THEN st.local_feed ELSE default_cut_mm_min
       IN IF ~fu.ok \/ ~st.ok THEN Raise
          ELSE /\ feed_mm_min' = fu.feed
               /\ IF beam_on
                  THEN /\ cut_time_s' = cut_time_s
                            + move_time_trap(dist, fr, params.cut_accel_g)
                       /\ toolpath' = add_segment(toolpath, "cut", Pt(x, y), Pt(st.nx, st.ny))
                       /\ UNCHANGED travel_time_s
                  ELSE /\ travel_time_s' = travel_time_s
                            + move_time_trap(dist, default_rapid_mm_min, params.rapid_accel_g)
                       /\ toolpath' = add_segment(toolpath, "travel", Pt(x, y), Pt(st.nx, st.ny))
                       /\ UNCHANGED cut_time_s
               /\ x' = st.nx
               /\ y' = st.ny
               /\ UNCHANGED <<beam_on, unit_factor, absolute_mode, counters, arc, status>>
               /\ UNCHANGED <<pierce_time_s, dwell_time_s, lifter_time_s>>

\* lines 284-291: the signed sweep, in units of pi/4
Delta(cmd, st, a1, a2) ==
  IF st.nx = x /\ st.ny = y /\ (st.i_off # 0 \/ st.j_off # 0)
  THEN (IF StartsWith(cmd, G2) THEN 0 - TwoPi ELSE TwoPi)
  ELSE LET d0 == a2 - a1
           d1 == IF StartsWith(cmd, G2) /\ d0 > 0 THEN d0 - TwoPi ELSE d0
       IN IF StartsWith(cmd, G3) /\ d1 < 0 THEN d1 + TwoPi ELSE d1

\* line 292: abs(delta) * r with delta in units of pi/4 (pi/4 = 0.7854)
ArcLen(delta, r) ==
  LET q == Abs(delta) * r
  IN (q \div 5000) * 3927 + ((q % 5000) * 3927) \div 5000

\* the segment count with round() in the place of int()
StepsRounded(delta) == Max(40, (Abs(delta) * 62831853 + 500000) \div 1000000)

\* line 300: max(40, int(abs(delta) * 80)) with delta in units of pi/4
Steps(delta) == Max(40, (Abs(delta) * 62831853) \div 1000000)

\* lines 213-215, 258-309
Arc ==
  \E l \in NextLines :
    /\ Takes(l, "arc")
    /\ LET cmd == Tokens[l][1]
           fu == FeedLoop(Tail(Tokens[l]), feed_mm_min)
           st == ArcLoop(Tail(Tokens[l]),
                         [ok |-> TRUE, nx |-> x, ny |-> y, i_off |-> 0, j_off |-> 0,
                          local_feed |-> fu.feed,
                          bound |-> arc.bound, cx |-> arc.cx, cy |-> arc.cy])
           r2 == (x - st.cx) * (x - st.cx) + (y - st.cy) * (y - st.cy)
           r == Hypot(x - st.cx, y - st.cy)
           a1 == Atan2(y - st.cy, x - st.cx)
           a2 == Atan2(st.ny - st.cy, st.nx - st.cx)
           delta == Delta(cmd, st, a1, a2)
           arc_len == ArcLen(delta, r)
           fr == IF st.local_feed > 0 THEN st.local_feed ELSE default_cut_mm_min
           steps == Steps(delta)
           seg_kind == IF beam_on THEN "cut" ELSE "travel"
           locals == [arc EXCEPT !.bound = TRUE, !.cx = st.cx, !.cy = st.cy,
                                 !.nx = st.nx, !.ny = st.ny,
                                 !.i_off = st.i_off, !.j_off = st.j_off, !.r2 = r2]
       IN IF ~fu.ok \/ ~st.ok \/ ~st.bound THEN Raise   \* cx is unbound at line 278
          ELSE /\ feed_mm_min' = fu.feed
               /\ x' = st.nx
               /\ y' = st.ny
               /\ UNCHANGED <<beam_on, unit_factor, absolute_mode, counters, status>>
               /\ UNCHANGED <<pierce_time_s, dwell_time_s, lifter_time_s>>
               /\ IF r2 = 0
                  THEN /\ arc' = locals
                       /\ UNCHANGED <<cut_time_s, travel_time_s, toolpath>>
                  ELSE \* the arcs drawn: both radius vectors at a multiple of pi/4
                       /\ Principal(x - st.cx, y - st.cy)
                       /\ Principal(st.nx - st.cx, st.ny - st.cy)
                       /\ arc' = [locals EXCEPT !.a1 = a1, !.a2 = a2,
                                                !.delta = delta, !.steps = steps]
                       /\ IF beam_on
                          THEN /\ cut_time_s' = cut_time_s
                                    + move_time_trap(arc_len, fr, params.cut_accel_g)
                               /\ UNCHANGED travel_time_s
                          ELSE /\ travel_time_s' = travel_time_s
                                    + move_time_trap(arc_len, default_rapid_mm_min,
                                                     params.rapid_accel_g)
                               /\ UNCHANGED cut_time_s
                       \* lines 300-307: steps segments from (x, y) along the arc
                       /\ toolpath' = Append(toolpath,
                            [type |-> seg_kind,
                             points |-> <<Pt(x, y),
                                          PolarPoint(st.cx, st.cy, r2, a1 + delta)>>,
                             n |-> steps,
                             arc |-> <<st.cx, st.cy, r2, a1, delta>>])

\* the fall-through treated as a move to the line's X and Y
OtherAsMove ==
  \E l \in NextLines :
    /\ Takes(l, "none")
    /\ LET fu == FeedLoop(Tail(Tokens[l]), feed_mm_min)
           st == RapidLoop(Tail(Tokens[l]), [ok |-> TRUE, nx |-> x, ny |-> y])
       IN IF ~fu.ok \/ ~st.ok THEN Raise
          ELSE /\ feed_mm_min' = fu.feed
               /\ x' = st.nx
               /\ y' = st.ny
               /\ UNCHANGED <<beam_on, unit_factor, absolute_mode>>
               /\ UNCHANGED <<times, counters, toolpath, arc, status>>

\* lines 213-215 and the fall-through at the end of the loop body
Other ==
  \E l \in NextLines :
    /\ Takes(l, "none")
    /\ LET fu == FeedLoop(Tail(Tokens[l]), feed_mm_min)
       IN IF ~fu.ok THEN Raise
          ELSE /\ feed_mm_min' = fu.feed
               /\ UNCHANGED <<x, y, beam_on, unit_factor, absolute_mode>>
               /\ UNCHANGED <<times, counters, toolpath, arc, status>>

\* round(t, 3): units of 1e-5 s to milliseconds, ties to even
Round3(t) ==
  LET q == t \div 100
      r == t % 100
  IN IF r > 50 \/ (r = 50 /\ q % 2 = 1) THEN q + 1 ELSE q

\* line 315. The end points of the segments of an arc have no exact
\* coordinates in tenths of mm, so a toolpath with an arc is carried into
\* the result unscaled.
norm_toolpath ==
  IF \A i \in 1..Len(toolpath) : toolpath[i].n = 1
  THEN normalize_toolpath(toolpath, 400)
  ELSE toolpath

\* lines 314-332
Finish ==
  /\ status = "running"
  /\ lines.given => lineNo = Len(lines.text)
  /\ status' = "done"
  /\ result' =
       [cut_time_sec |-> Round3(cut_time_s),
        travel_time_sec |-> Round3(travel_time_s),
        pierce_time_sec |-> Round3(pierce_time_s),
        dwell_time_sec |-> Round3(dwell_time_s),
        lifter_time_sec |-> Round3(lifter_time_s),
        total_time_sec |-> Round3(cut_time_s + travel_time_s + pierce_time_s
                                  + dwell_time_s + lifter_time_s),
        pierce_count |-> pierce_count,
        beam_cycles |-> beam_cycles,
        toolpath |-> norm_toolpath,
        final_modes |-> [units |-> IF unit_factor > 10 THEN "inch" ELSE "metric",
                         positioning |-> IF absolute_mode THEN "absolute" ELSE "relative"]]
  /\ UNCHANGED <<params, modal, times, counters, toolpath, parts, branch, arc, lineNo>>
  /\ UNCHANGED outside

Next ==
  \/ SkipLine
  \/ InchMode
  \/ MetricMode
  \/ AbsMode
  \/ RelMode
  \/ BeamOn
  \/ BeamOff
  \/ Dwell
  \/ Rapid
  \/ Linear
  \/ Arc
  \/ Other
  \/ Finish

Spec == Init /\ [][Next]_vars

\* ------------------------------------------------------------- whole files
\* lines 151-152: analyze called with one of the program texts
InitProgram ==
  /\ params \in ParamSets
  /\ InitRun
  /\ lines \in {FileLines(text) : text \in Programs}
  /\ other = NoFrame
  /\ arg = <<>> /\ ret = NoReturn

SpecProgram == InitProgram /\ [][Next]_vars

\* ------------------------------------------------------ two calls of analyze
\* the locals of the call that is running, as the frame of call id
Frame(id) ==
  [id |-> id, params |-> params, x |-> x, y |-> y, beam_on |-> beam_on,
   feed_mm_min |-> feed_mm_min, unit_factor |-> unit_factor,
   absolute_mode |-> absolute_mode, cut_time_s |-> cut_time_s,
   travel_time_s |-> travel_time_s, pierce_time_s |-> pierce_time_s,
   dwell_time_s |-> dwell_time_s, lifter_time_s |-> lifter_time_s,
   pierce_count |-> pierce_count, beam_cycles |-> beam_cycles,
   toolpath |-> toolpath, parts |-> parts, branch |-> branch, arc |-> arc,
   status |-> status, lineNo |-> lineNo, result |-> result, lines |-> lines]

\* the frame of a call that has not started its loop
StartFrame(id, p, text) ==
  [id |-> id, params |-> p, x |-> 0, y |-> 0, beam_on |-> FALSE, feed_mm_min |-> 0,
   unit_factor |-> 10, absolute_mode |-> TRUE,
   cut_time_s |-> 0, travel_time_s |-> 0, pierce_time_s |-> 0, dwell_time_s |-> 0,
   lifter_time_s |-> 0, pierce_count |-> 0, beam_cycles |-> 0, toolpath |-> <<>>,
   parts |-> <<>>, branch |-> "none", arc |-> NoArc, status |-> "running",
   lineNo |-> 0, result |-> <<>>, lines |-> FileLines(text)]

\* the switch with one toolpath list shared by the two calls
SwitchSharedToolpath ==
  /\ other.id # 0
  /\ other' = [Frame(3 - other.id) EXCEPT !.toolpath = other.toolpath]
  /\ params' = other.params
  /\ x' = other.x
  /\ y' = other.y
  /\ beam_on' = other.beam_on
  /\ feed_mm_min' = other.feed_mm_min
  /\ unit_factor' = other.unit_factor
  /\ absolute_mode' = other.absolute_mode
  /\ cut_time_s' = other.cut_time_s
  /\ travel_time_s' = other.travel_time_s
  /\ pierce_time_s' = other.pierce_time_s
  /\ dwell_time_s' = other.dwell_time_s
  /\ lifter_time_s' = other.lifter_time_s
  /\ pierce_count' = other.pierce_count
  /\ beam_cycles' = other.beam_cycles
  /\ parts' = other.parts
  /\ branch' = other.branch
  /\ arc' = other.arc
  /\ status' = other.status
  /\ lineNo' = other.lineNo
  /\ result' = other.result
  /\ lines' = other.lines
  /\ UNCHANGED <<toolpath, arg, ret>>

\* the running call is suspended and the other one resumed: every local of
\* analyze (lines 130-152 and the loop) belongs to the frame of its call
Switch ==
  /\ other.id # 0
  /\ other' = Frame(3 - other.id)
  /\ params' = other.params
  /\ x' = other.x
  /\ y' = other.y
  /\ beam_on' = other.beam_on
  /\ feed_mm_min' = other.feed_mm_min
  /\ unit_factor' = other.unit_factor
  /\ absolute_mode' = other.absolute_mode
  /\ cut_time_s' = other.cut_time_s
  /\ travel_time_s' = other.travel_time_s
  /\ pierce_time_s' = other.pierce_time_s
  /\ dwell_time_s' = other.dwell_time_s
  /\ lifter_time_s' = other.lifter_time_s
  /\ pierce_count' = other.pierce_count
  /\ beam_cycles' = other.beam_cycles
  /\ toolpath' = other.toolpath
  /\ parts' = other.parts
  /\ branch' = other.branch
  /\ arc' = other.arc
  /\ status' = other.status
  /\ lineNo' = other.lineNo
  /\ result' = other.result
  /\ lines' = other.lines
  /\ UNCHANGED <<arg, ret>>

TwoPrograms == {ExampleProgram, TourProgram}

InitTwo ==
  /\ params \in ParamSets
  /\ InitRun
  /\ lines \in {FileLines(text) : text \in TwoPrograms}
  /\ other \in {StartFrame(2, p, text) : p \in ParamSets, text \in TwoPrograms}
  /\ arg = <<>> /\ ret = NoReturn

NextTwo ==
  \/ Next
  \/ Switch

SpecTwo == InitTwo /\ [][NextTwo]_vars

\* ------------------------------------------------------ helpers called alone
\* a state in which one helper is called with an argument drawn from args
Calls(args) ==
  /\ params = DefaultParams
  /\ InitRun
  /\ lines = AnyLines
  /\ other = NoFrame
  /\ arg \in args
  /\ ret = NoReturn

Returns(value) ==
  /\ ~ret.returned
  /\ ret' = [returned |-> TRUE, value |-> value]
  /\ UNCHANGED <<params, modal, times, counters, toolpath, parts, branch, arc, status,
                 lineNo, result, lines, other, arg>>

\* the strings of at most n characters over the alphabet
Texts(alphabet, n) == UNION {[1..k -> alphabet] : k \in 0..n}

\* raw lines over a command letter, a digit, blanks and the comment marks
RawTexts == Texts({"G", "1", " ", ";", "(", ")"}, MaxText)

\* lines 155-160 applied to one raw line
CallNormalLine == Returns(NormalLine(arg))

SpecNormalLine == Calls(RawTexts) /\ [][CallNormalLine]_vars

\* configured codes and command tokens: M or G in either case, zeros, a
\* digit, blanks around
CodeTexts == Texts({"M", "m", "G", "0", "7", " "}, MaxCode)

\* lines 52-59 applied to one code
CallNormalizeMcode == Returns(normalize_mcode(arg))

SpecNormalizeMcode == Calls(CodeTexts) /\ [][CallNormalizeMcode]_vars

\* coordinates of the end points: 0, 0.5 and 3 mm
Coords == {0, 5, 30}
GridPoints == {Pt(px, py) : px \in Coords, py \in Coords}
\* the segments from ps[1] to ps[2], ..., each of the kind in ts
Chain(ps, ts) ==
  [i \in 1..Len(ts) |->
    [type |-> ts[i], points |-> <<ps[i], ps[i + 1]>>, n |-> 1, arc |-> <<>>]]
\* normalize_toolpath is called with a chain of at most MaxSegs segments
CallsWithSegments ==
  /\ params = DefaultParams
  /\ InitRun
  /\ lines = AnyLines
  /\ other = NoFrame
  /\ \E k \in 0..MaxSegs :
       \E ps \in [1..(k + 1) -> GridPoints], ts \in [1..k -> {"travel", "cut"}] :
         arg = Chain(ps, ts)
  /\ ret = NoReturn

\* lines 79-97 applied to one segment list
CallNormalizeToolpath == Returns(normalize_toolpath(arg, 400))

SpecNormalizeToolpath == CallsWithSegments /\ [][CallNormalizeToolpath]_vars

\* ========================================================== properties
\* ------------------------------------------------- helpers of the formulas
LineStep == lineNo' = lineNo + 1
RanLine == LineStep /\ status' = "running"

HasTok(ps, L) == \E i \in 2..Len(ps) : ps[i][1] = L
LastTok(ps, L) ==
  ps[CHOOSE i \in 2..Len(ps) : ps[i][1] = L /\ \A j \in (i + 1)..Len(ps) : ps[j][1] # L]
Operand(t) == FloatVal(Tail(t))
Malformed(t) == ~IsFloat(Tail(t))

LastEnd == toolpath[Len(toolpath)].points[2]
PosAtEnd == Pt(x, y) = (IF toolpath = <<>> THEN Pt(0, 0) ELSE LastEnd)
OnCircle(a) == (a.nx - a.cx) * (a.nx - a.cx) + (a.ny - a.cy) * (a.ny - a.cy) = a.r2

\* ---------------------------------------------------------------------- C1
\* C1 as stated: in every state the position is the end point of the
\* segment emitted last, or (0, 0) when no segment has been emitted.
C1_PositionIsLastEnd == PosAtEnd

\* C1 amended: a rapid or linear move, and a circular move of non-zero
\* radius whose target lies on its circle, leave the position at the end
\* point of the segment emitted last; every line that is not a circular move
\* keeps the position there once it is there.
C1_MovesEndAtPosition ==
  [][((RanLine /\ branch' \in {"rapid", "linear"})
        \/ (RanLine /\ branch' = "arc" /\ arc'.r2 # 0 /\ OnCircle(arc'))
        \/ (PosAtEnd /\ LineStep /\ branch' # "arc"))
      => PosAtEnd']_vars

C1_Witness ==
  /\ status = "running" /\ branch = "linear"
  /\ Len(toolpath) = 2
  /\ LastEnd = Pt(x, y)
  /\ toolpath[1].points[2] # Pt(x, y)

\* ---------------------------------------------------------------------- C2
\* C2: a clockwise arc (G2 or G02) with a positive raw angular difference
\* resolves to a negative delta, a counter-clockwise arc (G3 or G03) with a
\* negative raw difference to a positive delta.
C2_DirectionRule ==
  (branch = "arc" /\ status = "running" /\ arc.r2 # 0)
    => /\ (parts[1] \in {G2, G02} /\ arc.a2 - arc.a1 > 0) => arc.delta < 0
       /\ (parts[1] \in {G3, G03} /\ arc.a2 - arc.a1 < 0) => arc.delta > 0

\* ---------------------------------------------------------------------- C3
\* C3 as stated: every line that carries an F token sets the active feed
\* to that value times the unit factor, whatever its command.
C3_EveryLineSetsFeed ==
  [][(RanLine /\ branch' # "skip" /\ HasTok(parts', "F"))
      => feed_mm_min' = Operand(LastTok(parts', "F")) * unit_factor']_vars

\* C3 amended: a rapid, linear, circular or unrecognised line that carries
\* an F token sets the active feed to the last F value times the unit
\* factor; a mode, beam or dwell line leaves the feed as it is.
C3_FeedAfterDwellCheck ==
  [][RanLine =>
       /\ (branch' \in {"rapid", "linear", "arc", "none"} /\ HasTok(parts', "F"))
            => feed_mm_min' = Operand(LastTok(parts', "F")) * unit_factor
       /\ branch' \in {"inch", "metric", "abs", "rel", "beam_on", "beam_off", "dwell"}
            => feed_mm_min' = feed_mm_min]_vars

C3_Witness ==
  /\ status = "running" /\ branch = "rapid" /\ HasTok(parts, "F")
  /\ unit_factor = 254
  /\ feed_mm_min = Operand(LastTok(parts, "F")) * 254

\* ---------------------------------------------------------------------- C4
\* C4 as stated: a line whose command is in no recognised category leaves
\* the whole interpreter state unchanged.
C4_UnrecognisedChangesNothing ==
  [][(RanLine /\ branch' = "none") => UNCHANGED <<modal, times, counters, toolpath>>]_vars

\* C4 amended: such a line leaves position, unit factor, positioning mode,
\* beam state, accumulators, counters and toolpath unchanged; the active
\* feed is unchanged when the line carries no F token and becomes the last
\* F value times the unit factor when it carries one.
C4_UnrecognisedChangesFeedOnly ==
  [][(RanLine /\ branch' = "none")
      => /\ UNCHANGED <<x, y, beam_on, unit_factor, absolute_mode, times, counters, toolpath>>
         /\ feed_mm_min' = IF HasTok(parts', "F")
                           THEN Operand(LastTok(parts', "F")) * unit_factor
                           ELSE feed_mm_min]_vars

C4_Witness ==
  /\ status = "running" /\ branch = "none" /\ lineNo = 1
  /\ HasTok(parts, "X") /\ HasTok(parts, "F")
  /\ x = 0 /\ toolpath = <<>>
  /\ feed_mm_min = 5000

\* ---------------------------------------------------------------------- C5
\* C5 as stated: a line with a malformed parameter token fails the run,
\* whatever its command and whatever letter the token starts with.
C5_AnyMalformedTokenFails ==
  [][(LineStep /\ branch' # "skip" /\ \E i \in 2..Len(parts') : Malformed(parts'[i]))
      => status' = "failed"]_vars

\* the letters whose operands a branch parses
ParsedLetters(b) ==
  IF b = "dwell" THEN {"S", "P"}
  ELSE IF b \in {"rapid", "linear"} THEN {"X", "Y", "F"}
  ELSE IF b = "arc" THEN {"X", "Y", "I", "J", "F"}
  ELSE IF b = "none" THEN {"F"}
  ELSE {}
MalformedParsed(ps, b) ==
  \E i \in 2..Len(ps) : ps[i][1] \in ParsedLetters(b) /\ Malformed(ps[i])

\* C5 amended: the run fails when a malformed token is one the line's
\* branch parses (S, P on a dwell line; X, Y, F on a rapid or linear line;
\* X, Y, I, J, F on a circular line; F on an unrecognised line); a malformed
\* token that is not parsed, on a mode or beam line or under another letter,
\* does not fail the run.
C5_ParsedMalformedTokenFails ==
  [][(LineStep /\ branch' # "skip")
      => /\ MalformedParsed(parts', branch') => status' = "failed"
         /\ (status' = "failed" /\ branch' # "arc") => MalformedParsed(parts', branch')]_vars

C5_Witness ==
  /\ status = "failed" /\ branch = "rapid"
  /\ HasTok(parts, "X") /\ Malformed(LastTok(parts, "X"))

\* ---------------------------------------------------------------------- C6
\* the target of one axis as the line's tokens give it
AxisTarget(ps, L, cur) ==
  IF HasTok(ps, L)
  THEN (IF absolute_mode THEN Operand(LastTok(ps, L)) * unit_factor
        ELSE cur + Operand(LastTok(ps, L)) * unit_factor)
  ELSE cur
ZeroOffset(ps) ==
  /\ HasTok(ps, "I") => Operand(LastTok(ps, "I")) = 0
  /\ HasTok(ps, "J") => Operand(LastTok(ps, "J")) = 0

\* C6: a circular line whose centre offset is zero (I and J absent or zero),
\* also one without any parameter token and whatever came before it, does
\* not fail, emits no segment, changes no accumulator and moves the position
\* to the resolved target.
C6_ZeroOffsetArcIsDegenerate ==
  [][(LineStep /\ branch' = "arc" /\ ~MalformedParsed(parts', "arc") /\ ZeroOffset(parts'))
      => /\ status' = "running"
         /\ toolpath' = toolpath
         /\ UNCHANGED times
         /\ x' = AxisTarget(parts', "X", x)
         /\ y' = AxisTarget(parts', "Y", y)]_vars

\* ---------------------------------------------------------------------- C7
C7_NonNegative ==
  /\ cut_time_s >= 0 /\ travel_time_s >= 0 /\ pierce_time_s >= 0
  /\ dwell_time_s >= 0 /\ lifter_time_s >= 0
  /\ pierce_count >= 0 /\ beam_cycles >= 0
C7_NonDecreasing ==
  /\ cut_time_s' >= cut_time_s /\ travel_time_s' >= travel_time_s
  /\ pierce_time_s' >= pierce_time_s /\ dwell_time_s' >= dwell_time_s
  /\ lifter_time_s' >= lifter_time_s
  /\ pierce_count' >= pierce_count /\ beam_cycles' >= beam_cycles

\* C7: with positive numeric parameters the five time accumulators and the
\* two counters are never negative and never decrease from one line to the
\* next.
C7_AccumulatorsMonotone == [](C7_NonNegative) /\ [][C7_NonDecreasing]_vars

\* ---------------------------------------------------------------------- C8
\* C8: beam-on acts only while the beam is off (beam on, pierce and lifter
\* dwell added, both counters +1), beam-off only while it is on (beam off,
\* lifter dwell added, transition count +1, pierce count unchanged); the
\* repeated command changes nothing, and over every line the transition
\* count grows by one exactly when the beam state changes.
C8_BeamToggling ==
  [][LineStep =>
       /\ (branch' = "beam_on" /\ ~beam_on)
            => /\ beam_on'
               /\ pierce_time_s' = pierce_time_s + params.pierce_time
               /\ lifter_time_s' = lifter_time_s + params.lifter_time
               /\ pierce_count' = pierce_count + 1
               /\ beam_cycles' = beam_cycles + 1
       /\ (branch' = "beam_off" /\ beam_on)
            => /\ ~beam_on'
               /\ lifter_time_s' = lifter_time_s + params.lifter_time
               /\ beam_cycles' = beam_cycles + 1
               /\ UNCHANGED <<pierce_count, pierce_time_s>>
       /\ ((branch' = "beam_on" /\ beam_on) \/ (branch' = "beam_off" /\ ~beam_on))
            => UNCHANGED <<modal, times, counters, toolpath>>
       /\ beam_cycles' = beam_cycles + (IF beam_on' # beam_on THEN 1 ELSE 0)]_vars

C8_Witness ==
  /\ status = "running" /\ branch = "beam_on" /\ lineNo = 3
  /\ beam_on /\ pierce_count = 2 /\ beam_cycles = 3
  /\ lifter_time_s = 3 * params.lifter_time

\* ---------------------------------------------------------------------- C9
\* the categories in the order of the claim, each with its own test
Matches(p, cmd) ==
  <<cmd \in {Upper(Strip(p.inch_mode_code)), G20},
    cmd \in {Upper(Strip(p.metric_mode_code)), G21},
    cmd = Upper(Strip(p.abs_mode_code)),
    cmd = Upper(Strip(p.rel_mode_code)),
    normalize_mcode(cmd) = normalize_mcode(p.beam_on_code),
    normalize_mcode(cmd) = normalize_mcode(p.beam_off_code),
    cmd \in {G4, G04},
    cmd \in {G0, G00},
    cmd \in {G1, G01},
    cmd \in {G2, G02, G3, G03}>>
FirstMatch(p, cmd) ==
  IF \E i \in 1..10 : Matches(p, cmd)[i]
  THEN CHOOSE i \in 1..10 : Matches(p, cmd)[i] /\ \A j \in 1..(i - 1) : ~Matches(p, cmd)[j]
  ELSE 0
\* the command tokens of the program lines, and the first match of each
Commands == {Tokens[l][1] : l \in {m \in RawLines : Tokens[m] # <<>>}}
FirstMatchOf == [p \in ParamSets |-> [c \in Commands |-> FirstMatch(p, c)]]

\* C9: each line performs the transition of the first category its command
\* matches, in the order inch, metric, absolute, relative, beam-on, beam-off,
\* dwell, rapid, linear, circular, and of no later category the token also
\* matches.
C9_FirstMatchWins ==
  [][(RanLine /\ branch' # "skip") =>
       LET k == FirstMatchOf[params][parts'[1]]
       IN /\ k = 1 => unit_factor' = 254
          /\ k = 2 => unit_factor' = 10
          /\ k = 3 => absolute_mode'
          /\ k = 4 => ~absolute_mode'
          /\ k = 5 => (beam_on' /\ (~beam_on => pierce_count' = pierce_count + 1))
          /\ k = 6 => (~beam_on' /\ (beam_on => beam_cycles' = beam_cycles + 1))
          /\ k \in {1, 2} => UNCHANGED <<x, y, beam_on, feed_mm_min, absolute_mode>>
          /\ k \in {3, 4} => UNCHANGED <<x, y, beam_on, feed_mm_min, unit_factor>>
          /\ k \in {5, 6} => UNCHANGED <<x, y, feed_mm_min, unit_factor, absolute_mode>>
          /\ k \in 1..4 => UNCHANGED <<times, counters, toolpath>>
          /\ k \in 5..6 => UNCHANGED <<cut_time_s, travel_time_s, dwell_time_s, toolpath>>
          /\ k = 7 => UNCHANGED <<modal, counters, toolpath, cut_time_s, travel_time_s>>
          /\ k = 8 => (Len(toolpath') = Len(toolpath) + 1
                        /\ toolpath'[Len(toolpath')].type = "travel"
                        /\ toolpath'[Len(toolpath')].n = 1)
          /\ k = 9 => (Len(toolpath') = Len(toolpath) + 1
                        /\ toolpath'[Len(toolpath')].type = (IF beam_on THEN "cut" ELSE "travel")
                        /\ toolpath'[Len(toolpath')].n = 1)
          /\ k = 10 => (toolpath' # toolpath => toolpath'[Len(toolpath')].n >= 40)
          /\ k \in 8..10 => UNCHANGED <<beam_on, unit_factor, absolute_mode, counters,
                                         pierce_time_s, dwell_time_s, lifter_time_s>>
          /\ k = 0 => UNCHANGED <<x, y, beam_on, unit_factor, absolute_mode, times,
                                   counters, toolpath>>]_vars

C9_Witness ==
  /\ status = "running" /\ params = CollidingParams
  /\ parts # <<>> /\ parts[1] = G21
  /\ branch = "inch" /\ unit_factor = 254

\* --------------------------------------------------------------------- C10
\* the seconds a dwell operand stands for, in units of 1e-5 s
DwellOf(t) ==
  IF t[1] = "S" THEN Operand(t) * 100000
  ELSE IF Operand(t) > 50 THEN Operand(t) * 100
  ELSE Operand(t) * 100000
LastDwellTok(ps) ==
  ps[CHOOSE i \in 2..Len(ps) :
       ps[i][1] \in {"S", "P"} /\ \A j \in (i + 1)..Len(ps) : ps[j][1] \notin {"S", "P"}]

\* C10: a dwell line adds its S operand as seconds, or its P operand as
\* milliseconds when the value is above 50 and as seconds otherwise, to the
\* dwell time, and changes no other accumulator, counter, position or
\* segment.
C10_DwellResolution ==
  [][(RanLine /\ branch' = "dwell") =>
       /\ dwell_time_s' = dwell_time_s
            + (IF HasTok(parts', "S") \/ HasTok(parts', "P")
               THEN DwellOf(LastDwellTok(parts')) ELSE 0)
       /\ UNCHANGED <<cut_time_s, travel_time_s, pierce_time_s, lifter_time_s>>
       /\ UNCHANGED <<counters, x, y, toolpath>>]_vars

C10_Witness ==
  /\ status = "running" /\ branch = "dwell" /\ lineNo = 2
  /\ HasTok(parts, "P") /\ Operand(LastTok(parts, "P")) = 50
  /\ dwell_time_s = 5000000 + 50000

\* --------------------------------------------------------------------- C20
\* C20: in every reachable state the beam-transition count is twice the
\* pierce count, less one while the beam is on; the pierce time is the
\* pierce count times the pierce dwell and the lifter time the transition
\* count times the lifter dwell.
C20_TransitionCountIdentity ==
  /\ beam_cycles = 2 * pierce_count - (IF beam_on THEN 1 ELSE 0)
  /\ pierce_time_s = pierce_count * params.pierce_time
  /\ lifter_time_s = beam_cycles * params.lifter_time

C20_Witness ==
  /\ status = "done" /\ ~beam_on
  /\ pierce_count = 1 /\ beam_cycles = 2
  /\ result.lifter_time_sec = 2 * Round3(params.lifter_time)

\* --------------------------------------------------------------------- C18
\* |delta| * 80 for a sweep of 1..8 eighths of a turn (20 * pi * k), rounded
\* to the nearest integer and truncated to an integer
RoundedCount == <<63, 126, 188, 251, 314, 377, 440, 503>>
TruncatedCount == <<62, 125, 188, 251, 314, 376, 439, 502>>
SweepCount(tab, d) == IF d = 0 THEN 40 ELSE IF tab[Abs(d)] > 40 THEN tab[Abs(d)] ELSE 40
EmitsArc(tab) ==
  /\ Len(toolpath') = Len(toolpath) + 1
  /\ SubSeq(toolpath', 1, Len(toolpath)) = toolpath
  /\ toolpath'[Len(toolpath')].n = SweepCount(tab, arc'.delta)
  /\ toolpath'[Len(toolpath')].type = (IF beam_on THEN "cut" ELSE "travel")

\* C18 as stated: a circular move of non-zero radius emits exactly
\* max(40, round(|delta| * 80)) consecutive segments of one kind, 503 for a
\* full circle.
C18_RoundedSegmentCount ==
  [][(RanLine /\ branch' = "arc" /\ arc'.r2 # 0) => EmitsArc(RoundedCount)]_vars

\* C18 amended: the count is max(40, |delta| * 80 truncated to an integer),
\* 502 for a full circle.
C18_TruncatedSegmentCount ==
  [][(RanLine /\ branch' = "arc" /\ arc'.r2 # 0) => EmitsArc(TruncatedCount)]_vars

C18_Witness ==
  /\ status = "running" /\ branch = "arc" /\ arc.r2 # 0
  /\ Abs(arc.delta) = TwoPi
  /\ toolpath[Len(toolpath)].n = 502

\* --------------------------------------------------------------------- C17
\* C17: a rapid, linear or circular move resolves each axis on its own: the
\* token value times the unit factor in absolute mode, the current
\* coordinate plus that in relative mode, the current coordinate when the
\* line has no token of the axis; the mode and the factor are those of the
\* last mode line, absolute and 1.0 at the start.
C17_AxisTargetResolution ==
  [][/\ lineNo = 0 => (absolute_mode /\ unit_factor = 10)
     /\ (RanLine /\ branch' \in {"rapid", "linear", "arc"})
          => /\ x' = AxisTarget(parts', "X", x)
             /\ y' = AxisTarget(parts', "Y", y)
     /\ RanLine
          => /\ unit_factor' = (IF branch' = "inch" THEN 254
                                ELSE IF branch' = "metric" THEN 10 ELSE unit_factor)
             /\ absolute_mode' = (IF branch' = "abs" THEN TRUE
                                  ELSE IF branch' = "rel" THEN FALSE ELSE absolute_mode)]_vars

C17_Witness ==
  /\ status = "running" /\ branch = "rapid" /\ lineNo = 3
  /\ ~absolute_mode /\ unit_factor = 10
  /\ HasTok(parts, "X") /\ ~HasTok(parts, "Y")
  /\ x = 2 * Operand(LastTok(parts, "X")) * 10 /\ x > 0
  /\ y = 10

\* --------------------------------------------------------------------- C16
\* the time a line adds to the travel bucket, or to the cut bucket, for a
\* path of length len
AddsTravel(len) ==
  /\ travel_time_s' = travel_time_s
        + move_time_trap(len, params.default_rapid_ipm * 254, params.rapid_accel_g)
  /\ cut_time_s' = cut_time_s
AddsCut(len) ==
  /\ cut_time_s' = cut_time_s
        + move_time_trap(len, IF feed_mm_min' > 0 THEN feed_mm_min'
                              ELSE params.default_cut_ipm * 254,
                         params.cut_accel_g)
  /\ travel_time_s' = travel_time_s
EmitsKind(k) ==
  /\ Len(toolpath') = Len(toolpath) + 1
  /\ toolpath'[Len(toolpath')].type = k
MoveLen == Hypot(x' - x, y' - y)
SweepLen == ArcLen(arc'.delta, Hypot(x - arc'.cx, y - arc'.cy))

\* C16: a rapid move adds to the travel time, at the default rapid feed and
\* rapid acceleration, and emits a travel segment whatever the beam state; a
\* linear or circular move adds to the cut time, at the active feed (the
\* default cut feed when that is 0) and the cut acceleration, and emits cut
\* segments when the beam is on, and adds to the travel time and emits
\* travel segments like a rapid move when it is off. A circular move of zero
\* radius adds to neither bucket and emits nothing.
C16_BucketAndKindByBeam ==
  [][RanLine =>
       /\ branch' = "rapid" => (AddsTravel(MoveLen) /\ EmitsKind("travel"))
       /\ (branch' = "linear" /\ beam_on) => (AddsCut(MoveLen) /\ EmitsKind("cut"))
       /\ (branch' = "linear" /\ ~beam_on) => (AddsTravel(MoveLen) /\ EmitsKind("travel"))
       /\ (branch' = "arc" /\ arc'.r2 # 0 /\ beam_on)
            => (AddsCut(SweepLen) /\ EmitsKind("cut"))
       /\ (branch' = "arc" /\ arc'.r2 # 0 /\ ~beam_on)
            => (AddsTravel(SweepLen) /\ EmitsKind("travel"))
       /\ (branch' = "arc" /\ arc'.r2 = 0)
            => UNCHANGED <<cut_time_s, travel_time_s, toolpath>>
       /\ branch' \in {"rapid", "linear", "arc"} => beam_on' = beam_on]_vars

\* a rapid move and then a linear move with an F token, both with the beam on
C16_Witness ==
  /\ status = "running" /\ branch = "linear" /\ lineNo = 3
  /\ beam_on /\ pierce_count = 1
  /\ HasTok(parts, "F") /\ feed_mm_min = 2000
  /\ Len(toolpath) = 2
  /\ toolpath[1].type = "travel" /\ toolpath[2].type = "cut"
  /\ cut_time_s > 0 /\ travel_time_s > 0

\* --------------------------------------------------------------------- C19
\* the text before the first ';'
BeforeSemicolon(s) ==
  IF \E i \in 1..Len(s) : s[i] = ";"
  THEN SubSeq(s, 1, (CHOOSE i \in 1..Len(s) : s[i] = ";" /\ \A j \in 1..(i - 1) : s[j] # ";") - 1)
  ELSE s
\* the characters from index i on that lie outside every parenthetical: a
\* '(' goes with everything up to the first ')' after it, or with the rest
\* of the text when no ')' follows
RECURSIVE OutsideParens(_, _)
OutsideParens(s, i) ==
  IF i > Len(s) THEN <<>>
  ELSE IF s[i] # "(" THEN <<s[i]>> \o OutsideParens(s, i + 1)
  ELSE IF \E e \in (i + 1)..Len(s) : s[e] = ")"
  THEN OutsideParens(s, 1 + CHOOSE e \in (i + 1)..Len(s) :
                             s[e] = ")" /\ \A j \in (i + 1)..(e - 1) : s[j] # ")")
  ELSE <<>>

\* C19: the normalised line holds no ';' and no '('; it is the trimmed raw
\* line cut at its first ';', then without each '(' and the text up to the
\* first ')' after it (to the end of the line when none follows), trimmed
\* again; the cut at ';' comes first, also for a ';' inside a parenthetical.
C19_NormalLineHasNoComment ==
  ret.returned =>
    /\ \A i \in 1..Len(ret.value) : ret.value[i] \notin {";", "("}
    /\ ret.value = Strip(OutsideParens(BeforeSemicolon(Strip(arg)), 1))

C19_Witness ==
  /\ ret.returned
  /\ arg = <<"G", "(", ";", ")", "1">>
  /\ ret.value = <<"G">>

\* --------------------------------------------------------------------- C12
\* the number of leading zeros of the text after the first character
RECURSIVE LeadingZeros(_, _)
LeadingZeros(s, i) == IF i <= Len(s) /\ s[i] = "0" THEN 1 + LeadingZeros(s, i + 1) ELSE 0
\* M followed by the suffix without its leading zeros, M0 when nothing is left
WithoutLeadingZeros(s) ==
  LET k == LeadingZeros(s, 2)
  IN IF k + 1 = Len(s) THEN <<"M", "0">> ELSE <<"M">> \o SubSeq(s, k + 2, Len(s))
\* a text the tokenizer returns as one command token: a letter, then digits
IsCommandToken(s) ==
  /\ Len(s) >= 2 /\ IsLetter(s[1])
  /\ \A i \in 2..Len(s) : IsDigit(s[i])
\* M or m, any number of zeros, 7
IsM7(s) ==
  /\ Len(s) >= 2 /\ s[1] \in {"M", "m"} /\ s[Len(s)] = "7"
  /\ \A i \in 2..(Len(s) - 1) : s[i] = "0"

\* C12: the normal form of a code that starts with M (after trimming and
\* upper-casing) is M and the suffix without its leading zeros, M0 for an
\* all-zero suffix; that of any other code is the trimmed upper-case code;
\* normalising twice is normalising once; and with the beam-on code M07 a
\* command token takes the beam-on branch exactly when it is M, zeros, 7 in
\* either case, so M007, M07 and M7 do.
C12_McodeNormalForm ==
  ret.returned =>
    LET code == Upper(Strip(arg))
    IN /\ normalize_mcode(ret.value) = ret.value
       /\ (code # <<>> /\ code[1] = "M") => ret.value = WithoutLeadingZeros(code)
       /\ (code = <<>> \/ code[1] # "M") => ret.value = code
       /\ IsCommandToken(arg)
            => (Category(DefaultParams, Upper(arg)) = "beam_on" <=> IsM7(arg))
       /\ IsM7(arg) => ret.value = normalize_mcode(DefaultParams.beam_on_code)

C12_Witness ==
  /\ ret.returned
  /\ arg = <<"m", "0", "0", "7">>
  /\ ret.value = <<"M", "7">>
  /\ Category(DefaultParams, Upper(arg)) = "beam_on"

\* --------------------------------------------------------------------- C13
\* the end points of a segment list
EndPoints(tp) == {tp[i].points[j] : i \in 1..Len(tp), j \in 1..2}
\* width and height of the bounding box of the end points
BoxWidth(tp) ==
  LET xs == {p.x : p \in EndPoints(tp)}
  IN (CHOOSE m \in xs : \A n \in xs : m >= n) - (CHOOSE m \in xs : \A n \in xs : m <= n)
BoxHeight(tp) ==
  LET ys == {p.y : p \in EndPoints(tp)}
  IN (CHOOSE m \in ys : \A n \in ys : m >= n) - (CHOOSE m \in ys : \A n \in ys : m <= n)
LargerSide(tp) == IF BoxWidth(tp) > BoxHeight(tp) THEN BoxWidth(tp) ELSE BoxHeight(tp)
\* a non-empty list whose end points are not all the same point
Spread(tp) == tp # <<>> /\ Cardinality(EndPoints(tp)) > 1

\* C13 as stated: the larger side of the bounding box of every such list is
\* 400 after normalisation, also when the box is degenerate in one axis.
C13_LongestAxisFillsBox ==
  (ret.returned /\ Spread(arg)) => LargerSide(ret.value) = 400 * 1000

\* C13 amended: the larger side is 400 when both sides of the box are
\* positive, or one side is zero and the other at least 1; when one side is
\* zero and the other, s, is below 1 the larger side is 400 * s.
C13_LongestAxisFillsBoxFromOne ==
  (ret.returned /\ Spread(arg)) =>
    LET w == BoxWidth(arg)
        h == BoxHeight(arg)
    IN /\ (w > 0 /\ h > 0) => LargerSide(ret.value) = 400 * 1000
       /\ ((w = 0 \/ h = 0) /\ w + h >= 10) => LargerSide(ret.value) = 400 * 1000
       /\ ((w = 0 \/ h = 0) /\ w + h < 10) => LargerSide(ret.value) = 400 * 100 * (w + h)

C13_Witness ==
  /\ ret.returned /\ Len(arg) = 2
  /\ BoxWidth(arg) = 5 /\ BoxHeight(arg) = 0
  /\ LargerSide(ret.value) = 200 * 1000

\* --------------------------------------------------------------------- C15
\* the result of a run that interpreted nothing
EmptyResult ==
  [cut_time_sec |-> 0, travel_time_sec |-> 0, pierce_time_sec |-> 0,
   dwell_time_sec |-> 0, lifter_time_sec |-> 0, total_time_sec |-> 0,
   pierce_count |-> 0, beam_cycles |-> 0, toolpath |-> <<>>,
   final_modes |-> [units |-> "metric", positioning |-> "absolute"]]

\* C15: a run of an empty program, or of one made of blank and comment-only
\* lines (semicolon comments, parenthetical comments, an unmatched opening
\* parenthesis), never fails, and its result has the five times and the
\* total 0, both counters 0, an empty toolpath and the modes metric and
\* absolute.
C15_CommentOnlyProgramIsEmpty ==
  (lines.given /\ lines.text \in CommentPrograms) =>
    /\ status # "failed"
    /\ status = "done" => result = EmptyResult

C15_Witness ==
  /\ status = "done" /\ lineNo = 2
  /\ lines = FileLines(<<<<"(", "G", "1", " ", "X", "1">>, <<";", "G", "1", " ", "X", "1">>>>)
  /\ result = EmptyResult

\* --------------------------------------------------------------------- C11
\* C11: the run of G21, G90, G0 X10 Y0, M07, G1 X10 Y10 F100, M08, G4 P500
\* under the default parameter set returns pierce count 1, transition count
\* 2, dwell time 0.5 s, pierce time 1.0 s, lifter time 1.0 s and the modes
\* metric and absolute; its toolpath before normalisation is the travel
\* segment (0,0)->(10,0) and then the cut segment (10,0)->(10,10); the
\* travel time is that of 10 mm at 500 inch/min and 1 g (0.06882 s), the cut
\* time that of 10 mm at 100 mm/min and 0.5 g (6.00034 s).
C11_WorkedExample ==
  (lines = FileLines(ExampleProgram) /\ params = DefaultParams /\ status = "done") =>
    /\ result.pierce_count = 1 /\ result.beam_cycles = 2
    /\ result.dwell_time_sec = 500
    /\ result.pierce_time_sec = 1000
    /\ result.lifter_time_sec = 1000
    /\ result.final_modes = [units |-> "metric", positioning |-> "absolute"]
    /\ toolpath = <<[type |-> "travel", points |-> <<Pt(0, 0), Pt(100, 0)>>,
                     n |-> 1, arc |-> <<>>],
                    [type |-> "cut", points |-> <<Pt(100, 0), Pt(100, 100)>>,
                     n |-> 1, arc |-> <<>>]>>
    /\ travel_time_s = move_time_trap(1000, 500 * 254, 10)
    /\ travel_time_s \in 6881..6883
    /\ cut_time_s = move_time_trap(1000, 100 * 10, 5)
    /\ cut_time_s \in 600033..600035
    /\ result.travel_time_sec = 69 /\ result.cut_time_sec = 6000
    /\ result.total_time_sec = 8569

C11_Witness ==
  /\ status = "done" /\ lineNo = 7
  /\ lines = FileLines(ExampleProgram) /\ params = DefaultParams
  /\ branch = "dwell" /\ ~beam_on /\ Pt(x, y) = Pt(100, 100)
  /\ Len(result.toolpath) = 2

\* --------------------------------------------------------------------- C14
\* what the worked example returns when it runs alone
ExampleResult ==
  [cut_time_sec |-> 6000, travel_time_sec |-> 69, pierce_time_sec |-> 1000,
   dwell_time_sec |-> 500, lifter_time_sec |-> 1000, total_time_sec |-> 8569,
   pierce_count |-> 1, beam_cycles |-> 2,
   toolpath |-> <<[type |-> "travel",
                   points |-> <<[x |-> 0, y |-> 0], [x |-> 400000, y |-> 0]>>],
                  [type |-> "cut",
                   points |-> <<[x |-> 400000, y |-> 0], [x |-> 400000, y |-> 400000]>>]>>,
   final_modes |-> [units |-> "metric", positioning |-> "absolute"]]
\* a frame without the number of its call
Locals(f) == [f EXCEPT !.id = 0]
Returned(f) == f.status = "done"
\* the two calls have the same program and parameter set and have read the
\* same number of lines
SameProgress ==
  /\ lines = other.lines /\ params = other.params
  /\ lineNo = other.lineNo
  /\ Returned(Frame(0)) = Returned(other)
ReturnsExample(f) ==
  (f.lines = FileLines(ExampleProgram) /\ f.params = DefaultParams /\ Returned(f))
    => f.result = ExampleResult

\* C14: of two calls whose line steps interleave in any order, a step of
\* one leaves every local of the other as it is; two calls with the same
\* program and parameter set that have read equally many lines have equal
\* locals and, once returned, equal results; and the worked example returns
\* what it returns alone, whatever the other call does.
C14_RunsAreIsolated ==
  /\ [](/\ SameProgress => Locals(Frame(0)) = Locals(other)
        /\ ReturnsExample(Frame(0)) /\ ReturnsExample(other))
  /\ [][\/ other' = other
        \/ (Locals(other') = Locals(Frame(0)) /\ Locals(Frame(0))' = Locals(other))]_vars

\* both calls in the middle of the worked example, the second one running
C14_Witness ==
  /\ other.id = 1
  /\ lines = FileLines(ExampleProgram) /\ other.lines = lines
  /\ params = DefaultParams /\ other.params = CollidingParams
  /\ status = "running" /\ other.status = "running"
  /\ lineNo = 5 /\ other.lineNo = 3
  /\ cut_time_s > 0 /\ other.cut_time_s = 0

====
